---------------------------- MODULE Spec2Model ----------------------------
(***************************************************************************)
(* Model of diesel_cli/src/pretty_printing.rs: format_schema, the single   *)
(* pass pretty printer for the schema text produced by the quote crate.    *)
(*                                                                         *)
(* A string is a sequence of characters; a character is a one-character    *)
(* TLA+ string.  The output buffer `out` is a sequence of cells: the       *)
(* character the Rust String holds (ch) together with two history fields   *)
(* the properties need: the input position the character was copied from   *)
(* (at, 0 for a character the formatter inserted) and the value of         *)
(* inside_parenthesis when it was written (par).  No operation of the      *)
(* model reads at or par; they only say where a character came from.       *)
(***************************************************************************)
EXTENDS Integers, Sequences, FiniteSets

\* ------------------------------------------------------------------ bounds
MaxLen == 4        \* inputs over the whole Alphabet have at most MaxLen characters
MaxCoreLen == 5    \* inputs over CoreAlphabet have at most MaxCoreLen characters
MaxDecls == 2      \* inputs of table declarations hold at most MaxDecls of them

\* ------------------------------------------------------ program constants
IndentWidth == 4   \* the spaces that replace one "\t" of indent (line 99)

\* -------------------------------------------------------------- characters
Alphabet == {"{", "}", ",", ";", ":", "(", ")", "<", ">", "!", " ", "\t", "\n", "a"}
CoreAlphabet == {"{", "}", ",", "(", " ", "a"}

\* char::is_whitespace, on the characters of the model
IsWhitespace(c) == c \in {" ", "\t", "\n"}

\* Option::None of an Option<char>
None == "None"

Cell(c, i, p) == [ch |-> c, at |-> i, par |-> p]

\* the characters the formatter itself writes
Inserted(c) == Cell(c, 0, FALSE)

\* the text of a buffer: what the Rust String holds
Text(s) == [i \in 1..Len(s) |-> s[i].ch]

\* ------------------------------------------------------------------ inputs
SeqsUpTo(S, n) == UNION {[1..k -> S] : k \in 0..n}

RECURSIVE Concat(_)
Concat(ss) == IF ss = <<>> THEN <<>> ELSE Head(ss) \o Concat(Tail(ss))

\* "table ! {" as the quote crate writes it, and the bodies put between the braces
TableOpen == <<"t", "a", "b", "l", "e", " ", "!", " ", "{">>
Bodies == { <<" ">>,
            <<" ", "a", " ", ",", " ">>,
            <<" ", "a", " ">>,
            <<" ", "t", "a", "b", "l", "e", " ", "!", " ", ",", " ">>,
            <<" ", "a", " ", "(", "a", ")", " ", "{", " ", "a", " ", ",", " ", "}", " ">> }
Gaps == { <<>>, <<" ">> }
Declaration(b, g) == TableOpen \o b \o <<"}">> \o g
Declarations == {Declaration(b, g) : b \in Bodies, g \in Gaps}
TableInputs == {Concat(ds) : ds \in UNION {[1..k -> Declarations] : k \in 1..MaxDecls}}

\* inputs of the unit tests of the module
TestInputs ==
    { <<"{", ",", "}">>,
      <<"{", "a", "b", "c", ",", "}">>,
      <<",", ",">>,
      <<"t", "a", "b", "l", "e", " ", "!", " ", "{", " ", "}">>,
      <<":", ":", " ", "d", " ", ":", ":", " ", "t", " ", ":", ":", " ", "T">>,
      <<"f", "o", "o", " ", "(", " ", "4", "2", " ", ")">>,
      <<"O", "p", " ", "<", " ", "i", " ", ">">>,
      <<"i", "d", " ", "-", ">", " ", "I", " ", ",", " ", "u", " ", "-", ">", " ", "V">>,
      <<"N", " ", "<", " ", ":", ":", " ", "d", " ", ":", ":", " ", "T", " ", ">">>,
      <<"N", " ", "<", " ", " ", "I", " ", ">">>,
      <<"c", " ", "-", ">", " ", ":", ":", " ", "d", " ", ":", ":", " ", "T">>,
      <<"c", " ", "-", ">", " ", ":", ":", " ", "d", " ", ":", ":", " ", "T", " ", ",", ",">>,
      <<"(", "a", ",", " ", "b", ")">> }

Inputs == SeqsUpTo(Alphabet, MaxLen) \cup SeqsUpTo(CoreAlphabet, MaxCoreLen)
            \cup TableInputs \cup TestInputs

\* ------------------------------------------------------------------- state
VARIABLES
    schema,              \* the argument of format_schema
    pos,                 \* index of the next character `for c in schema.chars()` yields
    out,                 \* let mut out
    indent,              \* let mut indent
    skip_space,          \* let mut skip_space
    last_char,           \* let mut last_char
    inside_parenthesis,  \* let mut inside_parenthesis
    status,              \* "run" in the loop, then "ok" (Ok(text)) or "err" (Err(FmtError))
    result               \* the text of Ok(text)

vars == <<schema, pos, out, indent, skip_space, last_char, inside_parenthesis,
          status, result>>

\* ------------------------------------------------------- String operations
\* String::pop: the string without its last character (unchanged when empty)
Pop(s) == IF Len(s) = 0 THEN s ELSE SubSeq(s, 1, Len(s) - 1)

\* the Option<char> String::pop returns
Popped(s) == IF Len(s) = 0 THEN None ELSE s[Len(s)].ch

\* mutant: a buffer that cannot grow past String::with_capacity(schema.len())
WriteStrFixedCapacity(w, s) ==
    IF w.err \/ Len(w.buf) + Len(s) > Len(schema)
    THEN [err |-> TRUE, buf |-> w.buf]
    ELSE [err |-> FALSE, buf |-> w.buf \o s]

\* write!(out, ...)? : fmt::Write for String appends and returns Ok(())
WriteStr(w, s) == IF w.err THEN w ELSE [err |-> FALSE, buf |-> w.buf \o s]

\* "\n{}" with indent
NewlineIndent(ind) == <<Inserted("\n")>> \o ind

\* ---------------------------------------------------------- the loop body
\* mutant: chars.next_back() called once
CharBeforeWhitespaceOffByOne(o) == IF Len(o) >= 1 THEN o[Len(o)].ch ELSE None

\* lines 33-37: chars.next_back(); chars.next_back()
CharBeforeWhitespace(o) == IF Len(o) >= 2 THEN o[Len(o) - 1].ch ELSE None

\* mutant: the first arm pops without looking at last_char
RetroDeleteUnguarded(o, c, lc) ==
    IF c \in {"!", ",", "<", ")", ">"} THEN Pop(o)
    ELSE IF c = ":" /\ IsWhitespace(lc)
         THEN IF Len(o) >= 2 /\ o[Len(o) - 1].ch = ">" THEN o ELSE Pop(o)
    ELSE o

\* mutant: the `:` arm pops without looking at last_char
RetroDeleteColonUnguarded(o, c, lc) ==
    IF c \in {"!", ",", "<", ")", ">"} /\ IsWhitespace(lc) THEN Pop(o)
    ELSE IF c = ":"
         THEN IF Len(o) >= 2 /\ o[Len(o) - 1].ch = ">" THEN o ELSE Pop(o)
    ELSE o

\* lines 26-44: remove the whitespace the quote macro put before c
RetroDelete(o, c, lc) ==
    IF c \in {"!", ",", "<", ")", ">"} /\ IsWhitespace(lc) THEN Pop(o)
    ELSE IF c = ":" /\ IsWhitespace(lc)
         THEN IF CharBeforeWhitespace(o) # ">" THEN Pop(o) ELSE o
    ELSE o

\* mutant: only a space is skipped, not every whitespace character
SkipCondSpaceOnly(c, skip, lc) == skip /\ c = " " /\ lc # ">"

\* line 46: the condition of `continue`
SkipCond(c, skip, lc) == skip /\ IsWhitespace(c) /\ lc # ">"

\* mutant: the buffer is kept when it holds no newline
PopLineKeepsFirstLine(o) ==
    IF \E i \in DOMAIN o : o[i].ch = "\n"
    THEN SubSeq(o, 1, (CHOOSE i \in DOMAIN o :
                          o[i].ch = "\n" /\ \A k \in (i + 1)..Len(o) : o[k].ch # "\n") - 1)
    ELSE o

\* lines 57-61: while let Some(c) = out.pop() { if c == '\n' { break; } }
RECURSIVE PopLine(_)
PopLine(o) ==
    IF Popped(o) = None THEN o
    ELSE IF Popped(o) = "\n" THEN Pop(o)
    ELSE PopLine(Pop(o))

\* mutant: indent.pop() is missing
IndentAfterCloseKeeps(c, ind) == ind

\* line 63: indent.pop()
IndentAfterClose(c, ind) == IF c = "}" THEN Pop(ind) ELSE ind

\* mutant: the newline and the indent are written before indent.pop()
CloseBraceOldIndent(c, o, ind) ==
    IF c = "}"
    THEN WriteStr([err |-> FALSE, buf |-> PopLine(o)], NewlineIndent(ind))
    ELSE [err |-> FALSE, buf |-> o]

\* lines 56-65: the rewrite of the last line before `}` is written
CloseBrace(c, o, ind) ==
    IF c = "}"
    THEN WriteStr([err |-> FALSE, buf |-> PopLine(o)], NewlineIndent(Pop(ind)))
    ELSE [err |-> FALSE, buf |-> o]

\* mutant: the `)` arm is missing
ParenAfterNeverCloses(c, par) == IF c = "(" THEN TRUE ELSE par

\* lines 68-72
ParenAfter(c, par) ==
    IF c = "(" THEN TRUE ELSE IF c = ")" THEN FALSE ELSE par

\* mutant: `{` does not deepen the indent
IndentAfterNoPush(c, ind) == ind

\* lines 78-96: the indent after c
IndentAfter(c, ind) == IF c = "{" THEN ind \o <<Inserted("\t")>> ELSE ind

\* mutant: the comma arm does not look at inside_parenthesis
BreaksLineAnyComma(c, par) == c \in {",", "}", "{"}

\* lines 78-96: whether a newline and the indent follow c
BreaksLine(c, par) == (c = "," /\ ~par) \/ c = "}" \/ c = "{"

\* mutant: skip_space is also set after `>`
SkipAfterAngle(c, par) == BreaksLine(c, par) \/ c \in {":", "(", "<", ">"}

\* lines 78-96: skip_space after c
SkipAfter(c, par) == BreaksLine(c, par) \/ c \in {":", "(", "<"}

\* lines 78-96: what is written after c
AfterChar(w, c, par, ind) ==
    IF BreaksLine(c, par) THEN WriteStr(w, NewlineIndent(ind)) ELSE w

\* lines 50-96 for a character that is not skipped: the buffer (or the error)
Emit(o, c, i, ind, par) ==
    LET closed == CloseBrace(c, o, ind)
        ind1   == IndentAfterClose(c, ind)
        par1   == ParenAfter(c, par)
        wrote  == WriteStr(closed, <<Cell(c, i, par1)>>)
    IN  AfterChar(wrote, c, par1, IndentAfter(c, ind1))

\* --------------------------------------------------------- post-processing
FourSpaces(cell) == [k \in 1..IndentWidth |-> [cell EXCEPT !.ch = " "]]

\* out.replace("\t", "    ")
RECURSIVE ReplaceTabs(_)
ReplaceTabs(s) ==
    IF s = <<>> THEN <<>>
    ELSE (IF Head(s).ch = "\t" THEN FourSpaces(Head(s)) ELSE <<Head(s)>>)
         \o ReplaceTabs(Tail(s))

TableBang == <<"t", "a", "b", "l", "e", "!">>

StartsWith(s, p) == Len(s) >= Len(p) /\ Text(SubSeq(s, 1, Len(p))) = p

\* mutant: the second replace is missing
ReplaceTableMissing(s) == s

\* .replace("table!", "\ntable!")
RECURSIVE ReplaceTable(_)
ReplaceTable(s) ==
    IF s = <<>> THEN <<>>
    ELSE IF StartsWith(s, TableBang)
         THEN <<Inserted("\n")>> \o SubSeq(s, 1, Len(TableBang))
              \o ReplaceTable(SubSeq(s, Len(TableBang) + 1, Len(s)))
    ELSE <<Head(s)>> \o ReplaceTable(Tail(s))

RECURSIVE TrimStart(_)
TrimStart(s) ==
    IF s # <<>> /\ IsWhitespace(Head(s).ch) THEN TrimStart(Tail(s)) ELSE s

RECURSIVE TrimEnd(_)
TrimEnd(s) ==
    IF s # <<>> /\ IsWhitespace(s[Len(s)].ch) THEN TrimEnd(Pop(s)) ELSE s

\* mutant: trim_end() in place of trim()
TrimEndOnly(s) == TrimEnd(s)

\* .trim()
Trim(s) == TrimEnd(TrimStart(s))

\* line 99
PostProcess(o) == Trim(ReplaceTable(ReplaceTabs(o)))

\* ----------------------------------------------------------------- actions
Init ==
    /\ schema \in Inputs
    /\ pos = 1
    /\ out = <<>>
    /\ indent = <<>>
    /\ skip_space = FALSE
    /\ last_char = " "
    /\ inside_parenthesis = FALSE
    /\ status = "run"
    /\ result = <<>>

\* one iteration of the loop that ends in `continue` (lines 26-48)
SkipWhitespace ==
    /\ status = "run"
    /\ pos <= Len(schema)
    /\ SkipCond(schema[pos], skip_space, last_char)
    /\ out' = RetroDelete(out, schema[pos], last_char)
    /\ pos' = pos + 1
    /\ UNCHANGED <<schema, indent, skip_space, last_char, inside_parenthesis,
                   status, result>>

\* one iteration of the loop that writes its character (lines 26-96)
ProcessChar ==
    /\ status = "run"
    /\ pos <= Len(schema)
    /\ ~SkipCond(schema[pos], skip_space, last_char)
    /\ LET c == schema[pos]
           w == Emit(RetroDelete(out, c, last_char), c, pos, indent, inside_parenthesis)
       IN  /\ out' = w.buf
           /\ status' = IF w.err THEN "err" ELSE "run"
           /\ last_char' = c
           /\ inside_parenthesis' = ParenAfter(c, inside_parenthesis)
           /\ skip_space' = SkipAfter(c, ParenAfter(c, inside_parenthesis))
           /\ indent' = IndentAfter(c, IndentAfterClose(c, indent))
    /\ pos' = pos + 1
    /\ UNCHANGED <<schema, result>>

\* the end of the loop and line 99
Finish ==
    /\ status = "run"
    /\ pos > Len(schema)
    /\ result' = PostProcess(out)
    /\ status' = "ok"
    /\ UNCHANGED <<schema, pos, out, indent, skip_space, last_char, inside_parenthesis>>

Next == SkipWhitespace \/ ProcessChar \/ Finish

Spec == Init /\ [][Next]_vars

\* ------------------------------------------------- vocabulary of the claims
Chars(s) == {s[i] : i \in DOMAIN s}
Count(s, c) == Cardinality({i \in DOMAIN s : s[i] = c})
Last(s) == s[Len(s)]

\* the input's characters before position k: `{` seen minus `}` seen
Depth(s, k) == Cardinality({i \in 1..k : s[i] = "{"})
                 - Cardinality({i \in 1..k : s[i] = "}"})

\* every `}` closes an earlier `{` and every `{` is closed
Balanced(s) == (\A k \in 0..Len(s) : Depth(s, k) >= 0) /\ Depth(s, Len(s)) = 0

\* the index at which the line of r[i] starts (r[i] is not a newline)
LineStart(r, i) ==
    CHOOSE j \in 1..i : /\ j = 1 \/ r[j - 1].ch = "\n"
                        /\ \A k \in j..(i - 1) : r[k].ch # "\n"

\* the number of spaces the line of r[i] starts with
LineIndent(r, i) ==
    LET j == LineStart(r, i)
    IN  Cardinality({k \in j..i : \A n \in j..k : r[n].ch = " "})

\* the cells of r copied from the input that are not whitespace
Tokens(r) == {i \in DOMAIN r : r[i].at > 0 /\ ~IsWhitespace(r[i].ch)}

\* r holds "table!" from index i on
TableAt(r, i) == StartsWith(SubSeq(r, i, Len(r)), TableBang)

\* C1: for every input, the non-whitespace characters of the returned text are
\* exactly the non-whitespace characters of the input, each as many times as the
\* input holds it (none dropped, none duplicated, none added).
C1_TokensPreserved ==
    status = "ok" =>
        \A c \in Chars(schema) \cup Chars(Text(result)) :
            ~IsWhitespace(c) => Count(Text(result), c) = Count(schema, c)

\* C2: format_schema returns Ok(text) for every input, however malformed: the
\* call is in its loop or has returned Ok, never Err; every iteration consumes
\* exactly one input character; and the step after the last character returns
\* Ok, so the call ends after Len(schema) iterations.
C2_AlwaysReturnsOk ==
    /\ [](/\ status \in {"run", "ok"}
          /\ pos <= Len(schema) + 1
          /\ status = "ok" => pos = Len(schema) + 1)
    /\ [][\/ pos' = pos + 1 /\ pos <= Len(schema) /\ status' = "run"
          \/ pos' = pos /\ pos = Len(schema) + 1 /\ status' = "ok"]_vars

\* a malformed input was formatted: its first character is one of those the
\* formatter removes whitespace before, then `}` arrives with an empty indent and
\* no newline in the buffer, and a `(` is never closed
C2_Witness ==
    /\ status = "ok"
    /\ Len(schema) = 3
    /\ schema[1] \in {"!", "<", ")", ">", ":"}
    /\ schema[2] = "}"
    /\ schema[3] = "("

\* C3 as stated: for a well-balanced input, every token of the returned text
\* is on a line indented by 4 spaces times the `{` minus the `}` met strictly
\* before the token.
C3_IndentIsDepthBefore ==
    (status = "ok" /\ Balanced(schema)) =>
        \A i \in Tokens(result) :
            LineIndent(result, i) = IndentWidth * Depth(schema, result[i].at - 1)

\* no "table!" of the returned text was written inside braces
NoNestedTable ==
    \A i \in DOMAIN result : TableAt(result, i) => Depth(schema, result[i].at) = 0

\* C3 amended: for a well-balanced input that holds no newline and no `table!`
\* inside braces, every token of the returned text is on a line indented by 4
\* spaces times the `{` minus the `}` met before the token, the token itself
\* counted when it is a `}`.
C3_IndentIsDepth ==
    (status = "ok" /\ Balanced(schema) /\ "\n" \notin Chars(schema) /\ NoNestedTable) =>
        \A i \in Tokens(result) :
            LineIndent(result, i) =
                IndentWidth * (IF result[i].ch = "}"
                               THEN Depth(schema, result[i].at)
                               ELSE Depth(schema, result[i].at - 1))

\* a well-balanced input was formatted and a token written two levels deep is
\* on a line indented by 8 spaces, and a `}` is on a line indented by 4
C3_Witness ==
    /\ status = "ok" /\ Balanced(schema) /\ "\n" \notin Chars(schema) /\ NoNestedTable
    /\ \E i \in Tokens(result) :
          /\ result[i].ch = ","
          /\ Depth(schema, result[i].at - 1) = 2
          /\ LineIndent(result, i) = 2 * IndentWidth
    /\ \E i \in Tokens(result) :
          result[i].ch = "}" /\ LineIndent(result, i) = IndentWidth

\* C4: a comma processed while inside_parenthesis is true does not break the
\* line: only the comma is written (after the whitespace before it is removed),
\* skip_space stays false, and a whitespace that follows it is copied to out.
C4_CommaInParenthesis ==
    [][(status = "run" /\ pos <= Len(schema) /\ inside_parenthesis) =>
          /\ schema[pos] = "," =>
                /\ Text(out') = Text(IF IsWhitespace(last_char) THEN Pop(out) ELSE out)
                                \o <<",">>
                /\ ~skip_space'
                /\ indent' = indent
          /\ (last_char = "," /\ IsWhitespace(schema[pos])) =>
                Text(out') = Text(out) \o <<schema[pos]>>]_vars

\* a comma was written inside parentheses and the space after it was copied
C4_Witness ==
    /\ status = "run" /\ pos >= 4 /\ inside_parenthesis
    /\ schema[pos - 2] = "," /\ schema[pos - 1] = " "
    /\ Len(out) >= 2
    /\ Text(SubSeq(out, Len(out) - 1, Len(out))) = <<",", " ">>

\* the cells of r after which the formatter broke the line: `{`, `}` and the
\* commas written while inside_parenthesis was false
Breakers(r) ==
    {i \in DOMAIN r : /\ r[i].at > 0
                      /\ r[i].ch \in {"{", "}"} \/ (r[i].ch = "," /\ ~r[i].par)}

\* C5: in the returned text every `{`, every `}` and every comma processed while
\* inside_parenthesis was false is immediately followed by a newline, unless it
\* is the last character of the text.
C5_BreakStays ==
    status = "ok" =>
        \A i \in Breakers(result) : i = Len(result) \/ result[i + 1].ch = "\n"

\* the returned text holds a top-level comma whose line break survived the
\* dedent rewrite of the `}` that follows it in the input, and a `{` whose
\* line break survived the removal of whitespace before `,`
C5_Witness ==
    /\ status = "ok"
    /\ \E i \in Breakers(result) :
          /\ result[i].ch = "," /\ i < Len(result) /\ result[i + 1].ch = "\n"
          /\ result[i].at < Len(schema) /\ schema[result[i].at + 1] = "}"
    /\ \E i \in Breakers(result) :
          /\ result[i].ch = "{" /\ i < Len(result) /\ result[i + 1].ch = "\n"
          /\ result[i].at + 1 < Len(schema)
          /\ schema[result[i].at + 1] = " " /\ schema[result[i].at + 2] = ","

\* C6: format_schema puts a newline after every `;` of the input, as it does
\* after `{`, `}` and `,`.
C6_NewlineAfterSemicolon ==
    status = "ok" =>
        \A i \in DOMAIN result :
            result[i].ch = ";" => (i = Len(result) \/ result[i + 1].ch = "\n")

\* the input puts the whitespace at position j directly before one of ! , < ) >
\* (only whitespace lies between them)
BeforeTight(s, j) ==
    \E k \in (j + 1)..Len(s) :
        /\ s[k] \in {"!", ",", "<", ")", ">"}
        /\ \A n \in j..(k - 1) : IsWhitespace(s[n])

\* C7: whitespace the input places directly before one of ! , < ) > (a run of
\* one or more whitespace characters) does not appear in the returned text.
C7_NoWhitespaceBefore ==
    status = "ok" =>
        \A i \in DOMAIN result :
            (result[i].at > 0 /\ IsWhitespace(result[i].ch))
                => ~BeforeTight(schema, result[i].at)

\* C8: when `:` is processed and the last emitted character is whitespace, that
\* whitespace is the end of out and is deleted, unless the character of out
\* before it is `>`, in which case it is kept; the `:` is then written.
C8_ColonWhitespace ==
    [][(/\ status = "run" /\ pos <= Len(schema) /\ schema[pos] = ":"
        /\ IsWhitespace(last_char) /\ out # <<>>) =>
          /\ Last(out).ch = last_char
          /\ Text(out') = (IF Len(out) >= 2 /\ out[Len(out) - 1].ch = ">"
                           THEN Text(out)
                           ELSE Text(Pop(out))) \o <<":">>]_vars

\* test_format_arrow was formatted: the space after `->` is kept and the
\* spaces around the path separators are gone
C8_Witness ==
    /\ status = "ok"
    /\ schema = <<"c", " ", "-", ">", " ", ":", ":", " ", "d", " ", ":", ":", " ", "T">>
    /\ Text(result) = <<"c", " ", "-", ">", " ", ":", ":", "d", ":", ":", "T">>

\* C9: the returned text neither starts nor ends with a whitespace character.
C9_Trimmed ==
    (status = "ok" /\ result # <<>>) =>
        ~IsWhitespace(result[1].ch) /\ ~IsWhitespace(Last(result).ch)

\* the pass ended right after the line break that follows a `}`, and
\* post-processing put a newline before the `table!` the buffer starts with
C9_Witness ==
    /\ status = "ok" /\ result # <<>>
    /\ TableAt(out, 1)
    /\ Len(out) >= 2 /\ Last(out).ch = "\n" /\ out[Len(out) - 1].ch = "}"
    /\ Len(result) < Len(ReplaceTable(ReplaceTabs(out))) - 1

\* the `table!` of the returned text that open a declaration (not inside braces)
TopTables(r) == {i \in DOMAIN r : TableAt(r, i) /\ Depth(schema, r[i].at) = 0}

\* the number of declarations of the input
DeclCount(s) ==
    Cardinality({k \in 1..Len(s) : /\ k + Len(TableOpen) - 1 <= Len(s)
                                   /\ SubSeq(s, k, k + Len(TableOpen) - 1) = TableOpen
                                   /\ Depth(s, k - 1) = 0})

\* C10: for an input of consecutive brace-balanced `table ! { ... }`
\* declarations, the returned text holds one `table!` per declaration; the
\* first starts the text, and every later one follows the closing `}` of the
\* previous declaration, a newline and one empty line.
C10_BlankLineBetweenTables ==
    (status = "ok" /\ schema \in TableInputs) =>
        /\ Cardinality(TopTables(result)) = DeclCount(schema)
        /\ \A i \in TopTables(result) :
              IF result[i].at = 1
              THEN i = 1
              ELSE /\ i >= 5
                   /\ Text(SubSeq(result, i - 3, i - 1)) = <<"}", "\n", "\n">>
                   /\ result[i - 4].ch = "\n"

\* an input of two declarations was formatted
C10_Witness ==
    /\ status = "ok" /\ schema \in TableInputs
    /\ DeclCount(schema) = 2
    /\ Cardinality(TopTables(result)) = 2

\* the `{` among the first k characters of s that no later `}` among them has
\* closed; a `}` that meets no open `{` closes nothing
RECURSIVE OpenCount(_, _)
OpenCount(s, k) ==
    IF k = 0 THEN 0
    ELSE LET n == OpenCount(s, k - 1)
         IN  IF s[k] = "{" THEN n + 1
             ELSE IF s[k] = "}" /\ n > 0 THEN n - 1
             ELSE n

\* C11: after any prefix of any input, indent holds exactly one unit ("\t") per
\* `{` of the prefix not yet closed by a `}`; a `}` met with an empty indent
\* leaves it empty and later `{` count from zero.
C11_IndentIsOpenCount ==
    /\ Len(indent) = OpenCount(schema, pos - 1)
    /\ \A i \in DOMAIN indent : indent[i].ch = "\t"

\* a `}` arrived with an empty indent, and the `{` after it was counted from zero
C11_Witness ==
    /\ status = "run" /\ pos = 4
    /\ schema[1] = "}" /\ schema[2] = "}" /\ schema[3] = "{"
    /\ Len(indent) = 1

\* the `}` of the returned text
Closers(r) == {i \in DOMAIN r : r[i].at > 0 /\ r[i].ch = "}"}

\* C12: every `}` is alone on its line of the returned text: the line is the
\* indentation of the depth after the close (4 spaces per `{` still open, all
\* written by the formatter), then `}`, then the end of the line.
C12_CloseBraceAlone ==
    status = "ok" =>
        \A i \in Closers(result) :
            LET j == LineStart(result, i)
            IN  /\ \A k \in j..(i - 1) : result[k].ch = " " /\ result[k].at = 0
                /\ i - j = IndentWidth * OpenCount(schema, result[i].at)
                /\ i = Len(result) \/ result[i + 1].ch = "\n"

\* a `}` that the input puts between two identifier characters, one level
\* deep after the close, is alone on a line indented by 4 spaces
C12_Witness ==
    /\ status = "ok"
    /\ \E i \in Closers(result) :
          /\ i - LineStart(result, i) = IndentWidth
          /\ result[i].at < Len(schema)
          /\ schema[result[i].at - 1] = "a" /\ schema[result[i].at + 1] = "a"

\* C13: while skip_space is set every whitespace character is dropped, not only
\* the first: the iteration leaves out, indent, last_char, inside_parenthesis
\* and skip_space itself unchanged; skip_space is cleared only by an iteration
\* that processes a character that is not whitespace.
C13_SkipDropsRun ==
    [][(status = "run" /\ pos <= Len(schema) /\ skip_space) =>
          IF IsWhitespace(schema[pos])
          THEN UNCHANGED <<out, indent, last_char, inside_parenthesis, skip_space>>
          ELSE last_char' = schema[pos] /\ out' # out]_vars

\* two whitespace characters after `<` were dropped and skip_space is still set
C13_Witness ==
    /\ status = "run" /\ pos >= 4 /\ skip_space
    /\ schema[pos - 3] = "<"
    /\ IsWhitespace(schema[pos - 2]) /\ IsWhitespace(schema[pos - 1])
    /\ last_char = "<" /\ out # <<>> /\ Last(out).ch = "<"

\* whether the last `(` or `)` among the first k characters of s is a `(`
RECURSIVE LastParenIsOpen(_, _)
LastParenIsOpen(s, k) ==
    IF k = 0 THEN FALSE
    ELSE IF s[k] = "(" THEN TRUE
    ELSE IF s[k] = ")" THEN FALSE
    ELSE LastParenIsOpen(s, k - 1)

\* C14: after any prefix of the input, inside_parenthesis is true exactly when
\* the most recent `(` or `)` of the prefix is a `(` (false when there is none):
\* nesting is not counted, so a comma after `(()` breaks the line.
C14_ParenFlagIsLastParen ==
    /\ inside_parenthesis = LastParenIsOpen(schema, pos - 1)
    /\ (/\ status = "run" /\ pos >= 2 /\ schema[pos - 1] = ","
        /\ ~LastParenIsOpen(schema, pos - 1))
          => (skip_space /\ Text(out) = Text(Pop(SubSeq(out, 1, Len(out) - Len(indent))))
                                         \o <<"\n">> \o Text(indent))

\* a `(` was opened twice and closed once, and the comma that followed broke
\* the line although the outer group is still open
C14_Witness ==
    /\ status = "run" /\ pos = 5
    /\ SubSeq(schema, 1, 4) = <<"(", "(", ")", ",">>
    /\ ~inside_parenthesis
    /\ Last(out).ch = "\n"

\* C15: when `}` is processed and out holds no newline, the backward scan
\* removes everything written so far: out is then exactly the newline, the
\* indent, `}`, and the newline and indent written after it.
C15_CloseWithoutNewline ==
    [][(/\ status = "run" /\ pos <= Len(schema) /\ schema[pos] = "}"
        /\ "\n" \notin Chars(Text(out))) =>
          Text(out') = <<"\n">> \o Text(indent') \o <<"}", "\n">> \o Text(indent')]_vars

\* `aa}` was processed: the text before `}` is gone from out
C15_Witness ==
    /\ status = "run" /\ pos = 4
    /\ SubSeq(schema, 1, 3) = <<"a", "a", "}">>
    /\ Text(out) = <<"\n", "}", "\n">>

\* C16: whenever skip_space is set, last_char is one of , { } : ( < and so
\* never `>`: a whitespace met with skip_space set is always dropped, whatever
\* the last_char != '>' test of line 46 says, and after `>` skip_space is clear.
C16_SkipImpliesOpener ==
    /\ skip_space => last_char \in {",", "{", "}", ":", "(", "<"}
    /\ last_char = ">" => ~skip_space
    /\ \A c \in Alphabet :
          (skip_space /\ IsWhitespace(c)) => SkipCond(c, skip_space, last_char)

\* skip_space is set after a comma, and out holds a space that the input put
\* right after a `>`
C16_Witness ==
    /\ status = "run" /\ skip_space /\ last_char = ","
    /\ \E i \in 1..(Len(out) - 1) :
          /\ out[i].ch = ">" /\ out[i + 1].ch = " "
          /\ out[i + 1].at = out[i].at + 1

\* C17: the retroactive deletion never removes a character that is not
\* whitespace: when last_char is whitespace, either nothing was processed yet
\* and out is empty, or the last character of out is that whitespace, copied
\* from the input position just before; so what the match of lines 26-44 pops
\* is the recorded whitespace, never a newline or indent the formatter wrote.
C17_RetroDeletePopsWhitespace ==
    /\ IsWhitespace(last_char) =>
          \/ pos = 1 /\ out = <<>>
          \/ /\ out # <<>> /\ pos > 1
             /\ Last(out).ch = last_char
             /\ Last(out).at = pos - 1
    /\ \A c \in {"!", ",", "<", ")", ">", ":"} :
          RetroDelete(out, c, last_char) # out =>
              /\ RetroDelete(out, c, last_char) = Pop(out)
              /\ IsWhitespace(Last(out).ch) /\ Last(out).at > 0

\* out holds a line break the formatter wrote and ends with a whitespace copied
\* from the input, and the next character is one of ! , < ) > :
C17_Witness ==
    /\ status = "run" /\ pos >= 3 /\ pos <= Len(schema)
    /\ schema[pos] \in {"!", ",", "<", ")", ">", ":"}
    /\ IsWhitespace(last_char)
    /\ out # <<>> /\ Last(out).ch = last_char /\ Last(out).at = pos - 1
    /\ \E i \in DOMAIN out : out[i].ch = "\n" /\ out[i].at = 0

=============================================================================
